---- MODULE Spec2Model ----
(***************************************************************************)
(* A model of merged_fs (src/merged_fs.go): a union view of read-only file *)
(* sources.  A chain  NewMergedFS(S1, NewMergedFS(S2, S3))  of composition  *)
(* nodes over leaf sources is modelled: node k has the leaf srcs[k] as its  *)
(* primary (field A) and the file system k+1 as its secondary (field B),    *)
(* which is the next node, or the last leaf.                                *)
(*                                                                         *)
(* A path is the sequence of its components (strings.Split(path, "/")); a  *)
(* prefix of a path is a SubSeq of it (strings.Join(components[0:i+1])).   *)
(* The root is the path ".".                                               *)
(*                                                                         *)
(* An error is the sequence of its layers, outermost first, as             *)
(* errors.Unwrap walks them; nil is the empty sequence.  errors.Is(e, s)   *)
(* is "some layer of e is the sentinel s".                                 *)
(*                                                                         *)
(* A time is [sec, nsec]; Time.Unix() keeps sec alone and time.Unix(s, 0)  *)
(* is [sec |-> s, nsec |-> 0].  Seconds stay in 1..MaxSec, where the       *)
(* int64 -> uint64 -> int64 conversions of the code change nothing.        *)
(***************************************************************************)
EXTENDS Integers, Sequences, FiniteSets, TLC

\* Bounds of the model.
MaxSec == 2
NumThreads == 2

\* ------------------------------------------------------------------------
\* Paths and names

\* The names of the model, in ascending byte order.
NameOrder == <<"a", "b">>

NameSet == {NameOrder[i] : i \in 1..Len(NameOrder)}

NameRank(n) == CHOOSE i \in 1..Len(NameOrder) : NameOrder[i] = n

\* dirEntrySlice.Less: s[a].Name() < s[b].Name()
NameLess(n, m) == NameRank(n) < NameRank(m)

Root == <<".">>

\* The paths a leaf source may hold an entry at.
TreePaths == {Root, <<"a">>, <<"a", "a">>, <<"a", "b">>}

\* The valid paths Open is called with: the tree's, and two that no source
\* holds.
ValidCallPaths == TreePaths \cup {<<"b">>, <<"a", "a", "a">>}

\* The components that fs.ValidPath rejects.
BadElems == {"", ".", ".."}

\* io/fs.ValidPath, on the components of the path.
ValidPath(path) ==
  \/ path = Root
  \/ /\ Len(path) >= 1
     /\ \A i \in 1..Len(path) : path[i] \notin BadElems

\* The proper ancestor prefixes of a path (the root has none, and is none).
ProperPrefixes(path) == {SubSeq(path, 1, i) : i \in 1..(Len(path) - 1)}

ParentOf(path) == IF Len(path) = 1 THEN Root ELSE SubSeq(path, 1, Len(path) - 1)

\* baseName: the final element of the path.
baseName(path) == path[Len(path)]

\* ------------------------------------------------------------------------
\* Times and modes

\* Half a second, in nanoseconds.
HalfSecond == 500 * 1000 * 1000

\* The modification times of the model: one with nanoseconds, in second 1,
\* and the whole seconds 2..MaxSec.
Times == {[sec |-> 1, nsec |-> HalfSecond]}
           \cup {[sec |-> s, nsec |-> 0] : s \in 2..MaxSec}

ZeroTime == [sec |-> 0, nsec |-> 0]

\* Time.Unix(): the seconds, the nanoseconds dropped.
UnixOf(t) == t.sec

\* time.Unix(s, 0)
TimeUnix(s) == [sec |-> s, nsec |-> 0]

\* fs.FileMode: the directory bit and the permission bits.
Mode(isDir, perm) == [dir |-> isDir, perm |-> perm]

\* ------------------------------------------------------------------------
\* Errors

NoErr == << >>

Layer(site, path) == [site |-> site, path |-> path]

ErrNotExist == <<Layer("ErrNotExist", << >>)>>
ErrInvalid == <<Layer("ErrInvalid", << >>)>>
ErrIO == <<Layer("ErrIO", << >>)>>
ErrStat == <<Layer("ErrStat", << >>)>>
ErrReadDir == <<Layer("ErrReadDir", << >>)>>

\* syscall.ENOTDIR: errors.Is(ENOTDIR, fs.ErrNotExist) is false.
ErrNotDir == <<Layer("ENOTDIR", << >>)>>

\* errors.Is(e, target) for a sentinel target
ErrorsIs(e, sentinel) == \E i \in 1..Len(e) : e[i].site = sentinel

\* fmt.Errorf("<site> ... %w", path, e): a new layer around e.
Wrap(site, path, e) == <<Layer(site, path)>> \o e

\* &fs.PathError{Op: "open", Path: path, Err: e}
PathError(path, e) == <<Layer("PathError", path)>> \o e

\* isBadPathError (merged_fs.go:306)
isBadPathError(e) == ErrorsIs(e, "ErrNotExist") \/ ErrorsIs(e, "ErrInvalid")

\* The two error classes of a failed Open.
NotFoundClass(e) == e # NoErr /\ isBadPathError(e)
FatalClass(e) == e # NoErr /\ ~isBadPathError(e)

\* ------------------------------------------------------------------------
\* Files, directory entries and leaf sources

\* One record shape serves fs.File and fs.DirEntry values of every origin:
\*   type "leaf"      a file or directory handle opened in leaf source src
\*   type "leafentry" a DirEntry of a leaf source's directory listing
\*   type "merged"    a MergedDirectory (name, mode, modTime, entries,
\*                    readOffset are its fields; the others are unused)
\*   type "nil"       no file
\* readDir tells what the value is to the assertion .(fs.ReadDirFile) and to
\* ReadDir(-1):
\*   "none"   the value has no ReadDir method
\*   "ok"     it has one, which returns the entries
\*   "fails"  it has one, which returns an error
File(type, src, path, name, mode, mtime, modTime, statErr, entries, readDir) ==
  [type |-> type, src |-> src, path |-> path, name |-> name, mode |-> mode,
   mtime |-> mtime, modTime |-> modTime, statErr |-> statErr,
   entries |-> entries, readOffset |-> 0, readDir |-> readDir]

NoFile == File("nil", 0, << >>, "", Mode(FALSE, 0), ZeroTime, 0, FALSE, << >>, "none")

\* The MergedDirectory struct (merged_fs.go:52).
MergedDirectory(name, mode, modTime, entries) ==
  File("merged", 0, << >>, name, mode, ZeroTime, modTime, FALSE, entries, "ok")

\* MergedDirectory.IsDir returns true; a leaf's value carries the bit in its mode.
IsDir(f) == IF f.type = "merged" THEN TRUE ELSE f.mode.dir

\* MergedDirectory.ModTime: time.Unix(int64(d.modTime), 0)
ModTime(f) == IF f.type = "merged" THEN TimeUnix(f.modTime) ELSE f.mtime

\* The fs.FileInfo of a file or entry, as far as the claims read it.
InfoOf(f) ==
  [name |-> f.name, isDir |-> IsDir(f), mode |-> f.mode, modTime |-> ModTime(f)]

NoInfo == [name |-> "", isDir |-> FALSE, mode |-> Mode(FALSE, 0), modTime |-> ZeroTime]

\* File.Stat / DirEntry.Info: MergedDirectory.Stat and .Info return d, nil;
\* a leaf's may fail.
Stat(f) ==
  IF f.statErr THEN [err |-> ErrStat, info |-> NoInfo]
  ELSE [err |-> NoErr, info |-> InfoOf(f)]

\* A leaf source: a function from TreePaths to what the source holds there.
\*   kind  "none" | "file" | "dir"
\*   fail  "ok" | "open" (Open fails with an I/O error) | "stat" (Open
\*         succeeds, Stat on the handle fails) | "list" (Open and Stat
\*         succeed, ReadDir on the directory handle fails)
\*   twice the source breaks its contract and lists the entry two times in
\*         the listing of its parent directory
\*   osFile the non-directory is a file of the operating system, held by a
\*         source of the kind of os.DirFS: its handle, an *os.File, has a
\*         ReadDir method, which fails, and Open of a path below it fails
\*         with ENOTDIR, where a zip.Reader or an fstest.MapFS reports
\*         fs.ErrNotExist
Node(kind, fail, perm, mtime) ==
  [kind |-> kind, fail |-> fail, perm |-> perm, mtime |-> mtime, twice |-> FALSE,
   osFile |-> FALSE]

\* The non-directory as a source of the kind of os.DirFS holds it.
OSFile(node) == [node EXCEPT !.osFile = TRUE]

\* What the handle of the entry is to .(fs.ReadDirFile) and ReadDir(-1).
ReadDirOf(node) ==
  IF node.kind = "dir" THEN (IF node.fail = "list" THEN "fails" ELSE "ok")
  ELSE IF node.osFile THEN "fails" ELSE "none"

\* The entry as a source lists it that names it two times.
ListedTwice(node) == [node EXCEPT !.twice = TRUE]

Absent == Node("none", "ok", 0, ZeroTime)

\* The children of a directory path among the tree's paths.
ChildPaths(path) ==
  IF path = Root THEN {q \in TreePaths : Len(q) = 1 /\ q # Root}
  ELSE {q \in TreePaths : Len(q) = Len(path) + 1 /\ SubSeq(q, 1, Len(path)) = path}

\* The DirEntry a leaf lists for the child at path q.
LeafEntry(i, tree, q) ==
  File("leafentry", i, q, baseName(q), Mode(tree[q].kind = "dir", tree[q].perm),
       tree[q].mtime, 0, FALSE, << >>, "none")

RECURSIVE ListFrom(_, _, _, _)
ListFrom(i, tree, path, r) ==
  IF r > Len(NameOrder) THEN << >>
  ELSE LET here == {q \in ChildPaths(path) :
                      baseName(q) = NameOrder[r] /\ tree[q].kind # "none"}
       IN  (IF here = {} THEN << >>
            ELSE IF \E q \in here : tree[q].twice
              THEN <<LeafEntry(i, tree, CHOOSE q \in here : TRUE),
                     LeafEntry(i, tree, CHOOSE q \in here : TRUE)>>
            ELSE <<LeafEntry(i, tree, CHOOSE q \in here : TRUE)>>)
           \o ListFrom(i, tree, path, r + 1)

\* ReadDir(-1) on a fresh leaf directory handle: its entries, by name; an
\* entry that the source lists two times comes twice.
LeafList(i, tree, path) == ListFrom(i, tree, path, 1)

\* A proper ancestor prefix of the path is a file of the operating system.
BelowOSFile(tree, path) ==
  \E q \in ProperPrefixes(path) :
    q \in DOMAIN tree /\ tree[q].kind = "file" /\ tree[q].osFile

\* Open on leaf source i.
LeafOpen(i, tree, path) ==
  IF ~ValidPath(path)
    THEN [err |-> PathError(path, ErrInvalid), file |-> NoFile]
  ELSE IF BelowOSFile(tree, path)
    THEN [err |-> PathError(path, ErrNotDir), file |-> NoFile]
  ELSE IF path \notin DOMAIN tree \/ tree[path].kind = "none"
    THEN [err |-> PathError(path, ErrNotExist), file |-> NoFile]
  ELSE IF tree[path].fail = "open"
    THEN [err |-> PathError(path, ErrIO), file |-> NoFile]
  ELSE [err |-> NoErr,
        file |-> File("leaf", i, path, baseName(path),
                      Mode(tree[path].kind = "dir", tree[path].perm),
                      tree[path].mtime, 0, tree[path].fail = "stat",
                      IF tree[path].kind = "dir"
                        THEN LeafList(i, tree, path) ELSE << >>,
                      ReadDirOf(tree[path]))]

\* ------------------------------------------------------------------------
\* Merging two directories

\* A result that an operator computes once and then reads several times is
\* handed to a second operator as a parameter (MergedEntryOf, ...Of below).

\* The entries a ReadDir(-1) at the current offset returns: the remaining ones.
ReadAll(f) == SubSeq(f.entries, f.readOffset + 1, Len(f.entries))

\* ReadDir(-1) on a handle that has the method: the entries, or the error.
ReadDirAll(f) ==
  IF f.readDir = "fails" THEN [err |-> ErrReadDir, entries |-> << >>]
  ELSE [err |-> NoErr, entries |-> ReadAll(f)]

\* A plausible slip in lines 168-172: the time of A, never compared with B's.
MergedEntryOf_TimeOfA(a, infoA, infoB) ==
  IF infoA.err # NoErr
    THEN [err |-> Wrap("getMergedDirEntry:infoA", << >>, infoA.err), entry |-> NoFile]
  ELSE IF infoB.err # NoErr
    THEN [err |-> Wrap("getMergedDirEntry:infoB", << >>, infoB.err), entry |-> NoFile]
  ELSE [err |-> NoErr,
        entry |-> MergedDirectory(a.name, infoA.info.mode,
                                  UnixOf(infoA.info.modTime), << >>)]

\* getMergedDirEntry (merged_fs.go:161-179), given infoA, infoB: the results
\* of a.Info() and b.Info().
MergedEntryOf(a, infoA, infoB) ==
  IF infoA.err # NoErr
    THEN [err |-> Wrap("getMergedDirEntry:infoA", << >>, infoA.err), entry |-> NoFile]
  ELSE IF infoB.err # NoErr
    THEN [err |-> Wrap("getMergedDirEntry:infoB", << >>, infoB.err), entry |-> NoFile]
  ELSE [err |-> NoErr,
        entry |-> MergedDirectory(a.name, infoA.info.mode,
                                  IF UnixOf(infoB.info.modTime) > UnixOf(infoA.info.modTime)
                                    THEN UnixOf(infoB.info.modTime)
                                    ELSE UnixOf(infoA.info.modTime),
                                  << >>)]

\* getMergedDirEntry (merged_fs.go:159)
getMergedDirEntry(a, b) == MergedEntryOf(a, Stat(a), Stat(b))

\* nameConflicts[name]: the index in toReturn recorded for the name, 0 if none.
\* The names of toReturn are distinct, so it is the index of the name.
IndexOfName(toReturn, name) ==
  IF \E k \in 1..Len(toReturn) : toReturn[k].name = name
    THEN CHOOSE k \in 1..Len(toReturn) : toReturn[k].name = name
    ELSE 0

\* A plausible slip in lines 224-229: a name that A lists again is added again.
AddEntriesA_NoDuplicateCheck(entriesA, i, toReturn) ==
  [err |-> NoErr, entries |-> toReturn \o SubSeq(entriesA, i, Len(entriesA))]

\* The first loop of mergeDirEntries (merged_fs.go:222): the entries of A.
RECURSIVE AddEntriesA(_, _, _)
AddEntriesA(entriesA, i, toReturn) ==
  IF i > Len(entriesA) THEN [err |-> NoErr, entries |-> toReturn]
  ELSE IF IndexOfName(toReturn, entriesA[i].name) # 0
    THEN [err |-> <<Layer("mergeDirEntries:duplicateA", <<entriesA[i].name>>)>>,
          entries |-> << >>]
  ELSE AddEntriesA(entriesA, i + 1, Append(toReturn, entriesA[i]))

\* merged_fs.go:259-265: the entry at existingIndex becomes the merged entry.
ReplaceEntry(entry, toReturn, existingIndex, merged) ==
  IF merged.err # NoErr
    THEN [err |-> Wrap("mergeDirEntries:merged", <<entry.name>>, merged.err),
          entries |-> << >>]
  ELSE [err |-> NoErr, entries |-> [toReturn EXCEPT ![existingIndex] = merged.entry]]

\* A plausible slip in lines 249-254: B's entry takes the place of A's when
\* the two are not both directories.
AddEntryBAt_KeepsB(entry, toReturn, existingIndex) ==
  IF existingIndex = 0
    THEN [err |-> NoErr, entries |-> Append(toReturn, entry)]
  ELSE IF ~(IsDir(toReturn[existingIndex]) /\ IsDir(entry))
    THEN [err |-> NoErr, entries |-> [toReturn EXCEPT ![existingIndex] = entry]]
  ELSE ReplaceEntry(entry, toReturn, existingIndex,
                    getMergedDirEntry(toReturn[existingIndex], entry))

\* merged_fs.go:239-265, given existingIndex: nameConflicts[name], 0 if none.
AddEntryBAt(entry, toReturn, existingIndex) ==
  IF existingIndex = 0
    THEN [err |-> NoErr, entries |-> Append(toReturn, entry)]
  ELSE IF ~(IsDir(toReturn[existingIndex]) /\ IsDir(entry))
    THEN [err |-> NoErr, entries |-> toReturn]
  ELSE ReplaceEntry(entry, toReturn, existingIndex,
                    getMergedDirEntry(toReturn[existingIndex], entry))

\* One iteration of the second loop (merged_fs.go:237): one entry of B.
AddEntryB(entry, toReturn) ==
  AddEntryBAt(entry, toReturn, IndexOfName(toReturn, entry.name))

\* The second loop of mergeDirEntries (merged_fs.go:237): the entries of B
\* from the i-th on; r is the result so far.
RECURSIVE AddEntriesB(_, _, _)
AddEntriesB(entriesB, i, r) ==
  IF r.err # NoErr \/ i > Len(entriesB) THEN r
  ELSE AddEntriesB(entriesB, i + 1, AddEntryB(entriesB[i], r.entries))

\* Insert e into the name-sorted sequence s.
RECURSIVE InsertByName(_, _)
InsertByName(e, s) ==
  IF s = << >> THEN <<e>>
  ELSE IF NameLess(e.name, Head(s).name) THEN <<e>> \o s
  ELSE <<Head(s)>> \o InsertByName(e, Tail(s))

\* sort.Sort(dirEntrySlice(toReturn)): ascending by name (the names are
\* distinct, so every sort gives this one sequence).
RECURSIVE SortByName(_)
SortByName(s) ==
  IF s = << >> THEN << >> ELSE InsertByName(Head(s), SortByName(Tail(s)))

\* A plausible slip in line 269: the result is left unsorted.
SortMerged_NoSort(r) == r

\* merged_fs.go:268-270: the merged entries r, sorted, unless merging failed.
SortMerged(r) ==
  IF r.err # NoErr THEN r ELSE [err |-> NoErr, entries |-> SortByName(r.entries)]

\* merged_fs.go:208-270, given readA, readB: the results of dirA.ReadDir(-1)
\* and dirB.ReadDir(-1); the second is called only if the first succeeded.
MergedEntriesOf(readA, readB) ==
  IF readA.err # NoErr
    THEN [err |-> Wrap("mergeDirEntries:readA", << >>, readA.err), entries |-> << >>]
  ELSE IF readB.err # NoErr
    THEN [err |-> Wrap("mergeDirEntries:readB", << >>, readB.err), entries |-> << >>]
  ELSE SortMerged(AddEntriesB(readB.entries, 1, AddEntriesA(readA.entries, 1, << >>)))

\* mergeDirEntries (merged_fs.go:199): a and b are asserted to be
\* fs.ReadDirFile values, whatever Stat says of them.
mergeDirEntries(a, b) ==
  IF a.readDir = "none"
    THEN [err |-> <<Layer("mergeDirEntries:notDirA", << >>)>>, entries |-> << >>]
  ELSE IF b.readDir = "none"
    THEN [err |-> <<Layer("mergeDirEntries:notDirB", << >>)>>, entries |-> << >>]
  ELSE MergedEntriesOf(ReadDirAll(a), ReadDirAll(b))

\* merged_fs.go:278-301, given sA, sB: the results of a.Stat() and b.Stat(),
\* and merged: the result of mergeDirEntries(a, b).
MergedDirectoryOf(path, sA, sB, merged) ==
  IF sA.err # NoErr
    THEN [err |-> Wrap("newMergedDirectory:statA", path, sA.err), file |-> NoFile]
  ELSE IF sB.err # NoErr
    THEN [err |-> Wrap("newMergedDirectory:statB", path, sB.err), file |-> NoFile]
  ELSE IF merged.err # NoErr
    THEN [err |-> Wrap("newMergedDirectory:merge", << >>, merged.err), file |-> NoFile]
  ELSE [err |-> NoErr,
        file |-> MergedDirectory(baseName(path), sA.info.mode,
                                 IF UnixOf(sB.info.modTime) > UnixOf(sA.info.modTime)
                                   THEN UnixOf(sB.info.modTime)
                                   ELSE UnixOf(sA.info.modTime),
                                 merged.entries)]

\* MergedFS.newMergedDirectory (merged_fs.go:276)
newMergedDirectory(a, b, path) ==
  MergedDirectoryOf(path, Stat(a), Stat(b), mergeDirEntries(a, b))

\* ------------------------------------------------------------------------
\* The shadow-prefix check

\* knownOKPrefixes (merged_fs.go:37) is a map[string]bool that only ever
\* stores true: it is modelled as the set of its keys.

\* A call on a file system, as recorded in the log of an Open: on "leaf" id
\* is the leaf source, on "node" it is the composition node.  A Close of a
\* handle of leaf source id would be recorded with on "close"; Open,
\* validatePathPrefix, newMergedDirectory and mergeDirEntries call Close
\* nowhere, so no log holds one.
Ev(on, id, path) == [on |-> on, id |-> id, path |-> path]

\* The local state of one validatePathPrefix call: pc names the line it is
\* at, i is the loop index (from 1), err its result once pc = "return".
VState(pc, path, i, err, log) ==
  [pc |-> pc, path |-> path, i |-> i, err |-> err, log |-> log]

VInit(path) == VState("v316", path, 1, NoErr, << >>)

\* A plausible slip in lines 341-345: the path is memoized although a prefix
\* of it is a non-directory.
validateOpened_MemoizesShadowed(v, prefix, opened, info) ==
  IF opened.err # NoErr
    THEN IF isBadPathError(opened.err)
           THEN [v EXCEPT !.pc = "v329"]
           ELSE [v EXCEPT !.pc = "return",
                          !.err = Wrap("validatePathPrefix:open", v.path, ErrNotExist)]
  ELSE IF info.err # NoErr
    THEN [v EXCEPT !.pc = "return", !.err = <<Layer("validatePathPrefix:stat", << >>)>>]
  ELSE IF ~info.info.isDir
    THEN [v EXCEPT !.pc = "v330",
                   !.err = Wrap("validatePathPrefix:file", prefix, ErrNotExist)]
  ELSE [v EXCEPT !.pc = "v347"]

\* merged_fs.go:325-346: A has opened the prefix, with the result `opened`
\* and, where it opened, the Stat result `info`.
validateOpened(v, prefix, opened, info) ==
  IF opened.err # NoErr
    THEN IF isBadPathError(opened.err)
           THEN [v EXCEPT !.pc = "v329"]
           ELSE [v EXCEPT !.pc = "return",
                          !.err = Wrap("validatePathPrefix:open", v.path, ErrNotExist)]
  ELSE IF info.err # NoErr
    THEN [v EXCEPT !.pc = "return", !.err = <<Layer("validatePathPrefix:stat", << >>)>>]
  ELSE IF ~info.info.isDir
    THEN [v EXCEPT !.pc = "return",
                   !.err = Wrap("validatePathPrefix:file", prefix, ErrNotExist)]
  ELSE [v EXCEPT !.pc = "v347"]

\* merged_fs.go:325-346 for the result `opened` of m.A.Open(prefix).
validateOpen(k, v, prefix, opened) ==
  validateOpened([v EXCEPT !.log = Append(v.log, Ev("leaf", k, prefix))],
                 prefix, opened, Stat(opened.file))

\* One step of validatePathPrefix (merged_fs.go:314) for node k with primary
\* `tree`: at most one access to the map.  `seen` is what a read of
\* knownOKPrefixes[path] gives at this step.
validateStep(k, tree, known, v, seen) ==
  CASE v.pc = "v316" ->
         [known |-> known,
          v |-> IF seen THEN [v EXCEPT !.pc = "return"] ELSE [v EXCEPT !.pc = "v322"]]
    [] v.pc = "v322" ->
         [known |-> known,
          v |-> IF seen THEN [v EXCEPT !.pc = "return"] ELSE [v EXCEPT !.pc = "v325"]]
    [] v.pc = "v325" ->
         [known |-> known,
          v |-> validateOpen(k, v, SubSeq(v.path, 1, v.i),
                             LeafOpen(k, tree, SubSeq(v.path, 1, v.i)))]
    [] v.pc = "v329" ->
         [known |-> known \cup {SubSeq(v.path, 1, v.i)},
          v |-> [v EXCEPT !.pc = "v330"]]
    [] v.pc = "v330" ->
         [known |-> known \cup {v.path}, v |-> [v EXCEPT !.pc = "return"]]
    [] v.pc = "v347" ->
         [known |-> known \cup {SubSeq(v.path, 1, v.i)},
          v |-> [v EXCEPT !.pc = IF v.i < Len(v.path) THEN "v322" ELSE "return",
                          !.i = v.i + 1]]
    [] OTHER -> [known |-> known, v |-> v]

\* The steps that read the map, and those that write it.
IsMapRead(pc) == pc \in {"v316", "v322"}
IsMapWrite(pc) == pc \in {"v329", "v330", "v347"}

\* validatePathPrefix run to its end by one caller alone, from the step s.
RECURSIVE validateRun(_, _, _)
validateRun(k, tree, s) ==
  IF s.v.pc = "return" THEN [err |-> s.v.err, known |-> s.known, log |-> s.v.log]
  ELSE validateRun(k, tree, validateStep(k, tree, s.known, s.v, s.v.path \in s.known))

\* validatePathPrefix (merged_fs.go:314), run by one caller alone.
validatePathPrefix(k, tree, path, known) ==
  validateRun(k, tree, [known |-> known, v |-> VInit(path)])

\* ------------------------------------------------------------------------
\* Open

\* The result of an Open on a node: the returned error and file, the node's
\* cache afterwards, whether B.Open was called, and the calls made.
OpenResult(err, file, known, calledB, log) ==
  [err |-> err, file |-> file, known |-> known, calledB |-> calledB, log |-> log]

\* merged_fs.go:399: the merged directory, or the error of building it.
OpenMerged(merged, known, log) ==
  OpenResult(merged.err, merged.file, known, TRUE, log)

\* A plausible slip in lines 392-396: a non-directory in B is merged, too.
OpenDirInA_NoKindCheck(fA, path, known, rB, log) ==
  IF rB.err # NoErr
    THEN IF isBadPathError(rB.err)
           THEN OpenResult(NoErr, fA, known, TRUE, log \o rB.log)
           ELSE OpenResult(Wrap("Open:openB", path, rB.err), NoFile, known, TRUE,
                           log \o rB.log)
  ELSE IF Stat(rB.file).err # NoErr
    THEN OpenResult(Wrap("Open:statB", path, Stat(rB.file).err), NoFile, known, TRUE,
                    log \o rB.log)
  ELSE OpenMerged(newMergedDirectory(fA, rB.file, path), known, log \o rB.log)

\* merged_fs.go:376-399: the path is a directory in A; rB is what
\* m.B.Open(path) returns.
OpenDirInA(fA, path, known, rB, log) ==
  IF rB.err # NoErr
    THEN IF isBadPathError(rB.err)
           THEN OpenResult(NoErr, fA, known, TRUE, log \o rB.log)
           ELSE OpenResult(Wrap("Open:openB", path, rB.err), NoFile, known, TRUE,
                           log \o rB.log)
  ELSE IF Stat(rB.file).err # NoErr
    THEN OpenResult(Wrap("Open:statB", path, Stat(rB.file).err), NoFile, known, TRUE,
                    log \o rB.log)
  ELSE IF ~Stat(rB.file).info.isDir
    THEN OpenResult(NoErr, fA, known, TRUE, log \o rB.log)
  ELSE OpenMerged(newMergedDirectory(fA, rB.file, path), known, log \o rB.log)

\* A plausible slip in lines 370-374: no early return for a non-directory.
OpenInA_NoFileReturn(fA, path, known, rB, log) ==
  IF Stat(fA).err # NoErr
    THEN OpenResult(Wrap("Open:statA", path, Stat(fA).err), NoFile, known, FALSE, log)
  ELSE OpenDirInA(fA, path, known, rB, log)

\* A plausible slip in lines 365-374: a path that A answers is memoized.
OpenInA_Memoizes(fA, path, known, rB, log) ==
  IF Stat(fA).err # NoErr
    THEN OpenResult(Wrap("Open:statA", path, Stat(fA).err), NoFile, known, FALSE, log)
  ELSE IF ~Stat(fA).info.isDir
    THEN OpenResult(NoErr, fA, known \cup {path}, FALSE, log)
  ELSE OpenDirInA(fA, path, known \cup {path}, rB, log)

\* merged_fs.go:365-400: A opened the path, as fA.
OpenInA(fA, path, known, rB, log) ==
  IF Stat(fA).err # NoErr
    THEN OpenResult(Wrap("Open:statA", path, Stat(fA).err), NoFile, known, FALSE, log)
  ELSE IF ~Stat(fA).info.isDir
    THEN OpenResult(NoErr, fA, known, FALSE, log)
  ELSE OpenDirInA(fA, path, known, rB, log)

\* A plausible slip in lines 406-411: the result of the check is dropped.
OpenNotInA_IgnoresCheck(path, errA, checked, rB, log) ==
  IF ~isBadPathError(errA)
    THEN OpenResult(Wrap("Open:openA", path, errA), NoFile, checked.known, FALSE, log)
  ELSE OpenResult(rB.err, rB.file, checked.known, TRUE, log \o checked.log \o rB.log)

\* A plausible slip in line 414: B's error is wrapped like the others.
OpenNotInA_WrapsB(path, errA, checked, rB, log) ==
  IF ~isBadPathError(errA)
    THEN OpenResult(Wrap("Open:openA", path, errA), NoFile, checked.known, FALSE, log)
  ELSE IF checked.err # NoErr
    THEN OpenResult(PathError(path, checked.err), NoFile, checked.known, FALSE,
                    log \o checked.log)
  ELSE OpenResult(IF rB.err = NoErr THEN NoErr ELSE Wrap("Open:openB", path, rB.err),
                  rB.file, checked.known, TRUE, log \o checked.log \o rB.log)

\* A plausible slip in lines 403-405: every error of A falls through to B.
OpenNotInA_FallsBack(path, errA, checked, rB, log) ==
  IF checked.err # NoErr
    THEN OpenResult(PathError(path, checked.err), NoFile, checked.known, FALSE,
                    log \o checked.log)
  ELSE OpenResult(rB.err, rB.file, checked.known, TRUE, log \o checked.log \o rB.log)

\* merged_fs.go:401-414: the path is not in A; checked is the result of
\* validatePathPrefix(path), which runs if errA is a bad-path error.
OpenNotInA(path, errA, checked, rB, log) ==
  IF ~isBadPathError(errA)
    THEN OpenResult(Wrap("Open:openA", path, errA), NoFile, checked.known, FALSE, log)
  ELSE IF checked.err # NoErr
    THEN OpenResult(PathError(path, checked.err), NoFile, checked.known, FALSE,
                    log \o checked.log)
  ELSE OpenResult(rB.err, rB.file, checked.known, TRUE, log \o checked.log \o rB.log)

\* The log of an Open on node k up to its m.A.Open(path).
OpenLog(k, path) == <<Ev("node", k, path), Ev("leaf", k, path)>>

\* merged_fs.go:364-415, given rA: the result of m.A.Open(path).
OpenOf(k, path, tree, known, rB, rA) ==
  IF rA.err = NoErr
    THEN OpenInA(rA.file, path, known, rB, OpenLog(k, path))
  ELSE OpenNotInA(path, rA.err,
                  IF isBadPathError(rA.err)
                    THEN validatePathPrefix(k, tree, path, known)
                    ELSE [err |-> NoErr, known |-> known, log |-> << >>],
                  rB, OpenLog(k, path))

\* A plausible slip in lines 360-362: the path is not checked.
Open_NoPathCheck(k, path, tree, known, rB) ==
  OpenOf(k, path, tree, known, rB, LeafOpen(k, tree, path))

\* MergedFS.Open (merged_fs.go:359) on node k, whose primary is the leaf
\* `tree` and whose cache is `known`; rB is what m.B.Open(path) returns
\* where the code calls it.
Open(k, path, tree, known, rB) ==
  IF ~ValidPath(path)
    THEN OpenResult(PathError(<<"path">>, ErrInvalid), NoFile, known, FALSE,
                    <<Ev("node", k, path)>>)
  ELSE OpenOf(k, path, tree, known, rB, LeafOpen(k, tree, path))

\* The result of an Open on a file system of the chain: error, file, every
\* node's cache afterwards, and the calls made.
ChainResult(err, file, known, log) ==
  [err |-> err, file |-> file, caches |-> known, log |-> log]

\* The result of node k's Open, r, with the caches of the nodes below it,
\* which are those rB left if r called B.
NodeResult(k, known, rB, r) ==
  ChainResult(r.err, r.file,
              [(IF r.calledB THEN rB.caches ELSE known) EXCEPT ![k] = r.known], r.log)

LeafResult(k, path, known, r) ==
  ChainResult(r.err, r.file, known, <<Ev("leaf", k, path)>>)

\* Node k's Open, given rB: what its secondary, file system k+1, returns.
RECURSIVE OpenFS(_, _, _, _)
OpenNode(k, path, sources, known, rB) ==
  NodeResult(k, known, rB, Open(k, path, sources[k], known[k], rB))

\* A plausible slip in building the chain: every node's secondary is the last
\* source, the sources between them left out.
OpenFS_LastSource(k, path, sources, known) ==
  IF k = Len(sources)
    THEN LeafResult(k, path, known, LeafOpen(k, sources[k], path))
  ELSE OpenNode(k, path, sources, known,
                LeafResult(Len(sources), path, known,
                           LeafOpen(Len(sources), sources[Len(sources)], path)))

\* Open on file system k of the chain over the leaf sources: the leaf
\* sources[k] if k is the last, else the node NewMergedFS(sources[k], <k+1>).
OpenFS(k, path, sources, known) ==
  IF k = Len(sources)
    THEN LeafResult(k, path, known, LeafOpen(k, sources[k], path))
  ELSE OpenNode(k, path, sources, known, OpenFS(k + 1, path, sources, known))

\* ------------------------------------------------------------------------
\* The merged directory handle

\* io.EOF
ErrEOF == <<Layer("EOF", << >>)>>

\* The result of a call on a handle: the handle afterwards, the entries
\* returned and the error.
HandleResult(file, entries, err) == [file |-> file, entries |-> entries, err |-> err]

\* A plausible slip in line 128: endEntry is counted from the first entry.
EndEntry_FromStart(d, n) ==
  IF n <= 0 \/ n > Len(d.entries) THEN Len(d.entries) ELSE n

\* merged_fs.go:123-132: endEntry, for a cursor before the end.
EndEntry(d, n) ==
  IF n <= 0 THEN Len(d.entries)
  ELSE IF d.readOffset + n > Len(d.entries) THEN Len(d.entries)
  ELSE d.readOffset + n

\* merged_fs.go:133-135: d.entries[startEntry:endEntry] is returned and the
\* cursor moves to endEntry.
ReadDirTo(d, endEntry) ==
  HandleResult([d EXCEPT !.readOffset = endEntry],
               SubSeq(d.entries, d.readOffset + 1, endEntry), NoErr)

\* A plausible slip in lines 116-122: the end of the entries is not told
\* apart; the empty rest is returned with no error.
ReadDir_NoEndCheck(d, n) == ReadDirTo(d, EndEntry(d, n))

\* MergedDirectory.ReadDir (merged_fs.go:115); a nil slice is the empty one.
ReadDir(d, n) ==
  IF d.readOffset >= Len(d.entries)
    THEN HandleResult(d, << >>, IF n <= 0 THEN NoErr ELSE ErrEOF)
  ELSE ReadDirTo(d, EndEntry(d, n))

\* A plausible slip in lines 107-111: every field is cleared.
Close_ClearsAll(d) ==
  HandleResult([d EXCEPT !.entries = << >>, !.readOffset = 0, !.name = "",
                         !.mode = Mode(FALSE, 0), !.modTime = 0], << >>, NoErr)

\* MergedDirectory.Close (merged_fs.go:106)
Close(d) == HandleResult([d EXCEPT !.entries = << >>, !.readOffset = 0], << >>, NoErr)

\* ------------------------------------------------------------------------
\* The state

VARIABLES
  srcs,    \* the leaf sources S1, S2, S3 of the chain, highest priority first
  caches,  \* caches[k]: knownOKPrefixes of node k
  call,    \* the last Open: the node and the path
  ret,     \* what that Open returned: error, file, and the calls it made
  thr,     \* thr[t]: the Open that thread t is in, when threads call concurrently
  hnd,     \* the handle the last Open returned, and the last call on it
  ctl      \* ctl.caching[k]: node k memoizes; ctl.served: the paths opened so far

vars == <<srcs, caches, call, ret, thr, hnd, ctl>>

\* The composition nodes: node k is NewMergedFS(srcs[k], <file system k+1>).
Nodes == 1..(Len(srcs) - 1)

\* The source trees of the model.  The root is a directory; "a" is absent,
\* a file (sound, or failing on Open or on Stat), or a directory holding
\* "a/a" (absent, file or directory) and "a/b" (absent or file).  Every
\* entry of source i has the permission bits i and the source's one time.
Tree(i, t, ka, fa, kaa, kab) ==
  [p \in TreePaths |->
     CASE p = Root -> Node("dir", "ok", i, t)
       [] p = <<"a">> -> IF ka = "none" THEN Absent ELSE Node(ka, fa, i, t)
       [] p = <<"a", "a">> -> IF kaa = "none" THEN Absent ELSE Node(kaa, "ok", i, t)
       [] p = <<"a", "b">> -> IF kab = "none" THEN Absent ELSE Node(kab, "ok", i, t)]

\* The sound trees: nothing fails.
SoundTrees(i, times, kabs) ==
  {Tree(i, t, ka, "ok", "none", "none") : t \in times, ka \in {"none", "file"}}
    \cup {Tree(i, t, "dir", "ok", kaa, kab) :
            t \in times, kaa \in {"none", "file", "dir"}, kab \in kabs}

\* The trees where "a" fails on Open or on Stat.
FailingTrees(i, times) ==
  {Tree(i, t, "file", fa, "none", "none") : t \in times, fa \in {"open", "stat"}}

\* The trees of a source of the kind of os.DirFS with a file "a".
OSFileTrees(i, times) ==
  {[Tree(i, t, "file", "ok", "none", "none") EXCEPT ![<<"a">>] = OSFile(@)] :
     t \in times}

\* The last source of a chain of three keeps one time.
LastTimes == {[sec |-> MaxSec, nsec |-> 0]}
MidTimes == {[sec |-> 1, nsec |-> HalfSecond]}

\* NewMergedFS(S1, S2) over all trees and times, S1 also of the kind of
\* os.DirFS, and NewMergedFS(S1, NewMergedFS(S2, S3)) over sound trees
\* without "a/b", S2 also of the kind of os.DirFS.
Chains ==
  {<<s1, s2>> :
     s1 \in SoundTrees(1, Times, {"none", "file"}) \cup FailingTrees(1, Times)
              \cup OSFileTrees(1, MidTimes),
     s2 \in SoundTrees(2, Times, {"none", "file"}) \cup FailingTrees(2, Times)}
  \cup
  {<<s1, s2, s3>> :
     s1 \in SoundTrees(1, Times, {"none"}),
     s2 \in SoundTrees(2, MidTimes, {"none"}) \cup OSFileTrees(2, MidTimes),
     s3 \in SoundTrees(3, LastTimes, {"none"})}

\* Paths that fs.ValidPath rejects: "/a", "a/", "a/..".
InvalidCallPaths == {<<"", "a">>, <<"a", "">>, <<"a", "..">>}

\* The paths Open is called with.
CallPaths == ValidCallPaths \cup InvalidCallPaths

NoCall == [node |-> 0, path |-> << >>]
NoRet == [err |-> NoErr, file |-> NoFile, log |-> << >>]

\* NewMergedFS (merged_fs.go:41): every node starts with an empty cache.
NewMergedFS(chain) == [k \in 1..(Len(chain) - 1) |-> {}]

\* A thread outside any call.
Thread(pc, path, v, rA, r) == [pc |-> pc, path |-> path, v |-> v, rA |-> rA, ret |-> r]

Idle == Thread("idle", << >>, VInit(<< >>), [err |-> NoErr, file |-> NoFile], NoRet)

Threads == 1..NumThreads

\* A handle and the last call on it: op is "none", "ReadDir" or "Close", n
\* the argument of ReadDir, before the handle before the call, out and err
\* what the call returned, read the entries returned since the handle was
\* opened or closed, closes how many times (up to 2) it was closed.
Handle(file, op, n, before, out, err, read, closes) ==
  [file |-> file, op |-> op, n |-> n, before |-> before, out |-> out,
   err |-> err, read |-> read, closes |-> closes]

\* The handle as Open returns it.
Opened(file) == Handle(file, "none", 0, file, << >>, NoErr, << >>, 0)

NoHandle == Opened(NoFile)

\* Every node memoizes from its construction on; no path was opened yet.
Control(caching, served) == [caching |-> caching, served |-> served]
NewControl(chain) == Control([k \in 1..(Len(chain) - 1) |-> TRUE], {})

Init ==
  /\ srcs \in Chains
  /\ caches = NewMergedFS(srcs)
  /\ call = NoCall
  /\ ret = NoRet
  /\ thr = [t \in Threads |-> Idle]
  /\ hnd = NoHandle
  /\ ctl = NewControl(srcs)

\* What a caller sees of an Open's result.
Returned(r) == [err |-> r.err, file |-> r.file, log |-> r.log]

\* Node k's Open(path) returns r.
Returns(k, path, r) ==
  /\ call' = [node |-> k, path |-> path]
  /\ ret' = Returned(r)
  /\ caches' = r.caches
  /\ hnd' = Opened(r.file)
  /\ UNCHANGED <<srcs, thr, ctl>>

\* A caller opens `path` on node k.
DoOpen(k, path) == Returns(k, path, OpenFS(k, path, srcs, caches))

\* Callers hold the top node of the chain.
Next == \E path \in CallPaths : DoOpen(1, path)

Spec == Init /\ [][Next]_vars

\* ------------------------------------------------------------------------
\* The primary changes between calls

\* The contents the primary may have: the sound trees of one time, also of
\* a source of the kind of os.DirFS (the primary of TestPathPrefixCaching).
PrimaryTrees == SoundTrees(1, MidTimes, {"none"}) \cup OSFileTrees(1, MidTimes)

\* NewMergedFS(S1, S2) over sound trees of one time.
ChangingChains ==
  {<<s1, s2>> : s1 \in PrimaryTrees,
                s2 \in SoundTrees(2, MidTimes, {"none", "file"})}

InitChanging ==
  /\ srcs \in ChangingChains
  /\ caches = NewMergedFS(srcs)
  /\ call = NoCall
  /\ ret = NoRet
  /\ thr = [t \in Threads |-> Idle]
  /\ hnd = NoHandle
  /\ ctl = NewControl(srcs)

\* The contents of the primary change, between two calls, to those of tree.
ChangePrimary(tree) ==
  /\ tree # srcs[1]
  /\ srcs' = [srcs EXCEPT ![1] = tree]
  /\ call' = NoCall
  /\ ret' = NoRet
  /\ hnd' = NoHandle
  /\ UNCHANGED <<caches, thr, ctl>>

NextChanging ==
  \/ \E path \in ValidCallPaths : DoOpen(1, path)
  \/ \E tree \in PrimaryTrees : ChangePrimary(tree)

SpecChanging == InitChanging /\ [][NextChanging]_vars

\* ------------------------------------------------------------------------
\* Threads calling Open on one node concurrently

\* The code takes no lock around knownOKPrefixes, and nothing orders the
\* threads' accesses to it.  A thread's Open is split at each access:
\*   "open"     lines 360-405, up to the call of validatePathPrefix
\*   "validate" inside validatePathPrefix, at the line thr[t].v.pc
\*   "checked"  validatePathPrefix has returned; lines 407-414 remain
\*   "done"     Open has returned thr[t].ret
\*   "crashed"  the runtime has ended the process
\* An access made while another thread is at a conflicting access is a data
\* race: a racing read may give either value, and the runtime may detect the
\* race and end the process ("fatal error: concurrent map writes").

ConcurrentChains ==
  {<<s1, s2>> : s1 \in SoundTrees(1, MidTimes, {"none"}),
                s2 \in {Tree(2, t, "dir", "ok", "file", "file") : t \in MidTimes}}

InitConcurrent ==
  /\ srcs \in ConcurrentChains
  /\ caches = NewMergedFS(srcs)
  /\ call = NoCall
  /\ ret = NoRet
  /\ thr = [t \in Threads |-> Idle]
  /\ hnd = NoHandle
  /\ ctl = NewControl(srcs)

\* Thread t is at a read, or at a write, of the node's map.
AtRead(t) == thr[t].pc = "validate" /\ IsMapRead(thr[t].v.pc)
AtWrite(t) == thr[t].pc = "validate" /\ IsMapWrite(thr[t].v.pc)

\* Thread t's next access races with another thread's.
Racing(t) ==
  \E u \in Threads \ {t} :
    \/ AtWrite(t) /\ (AtRead(u) \/ AtWrite(u))
    \/ AtRead(t) /\ AtWrite(u)

\* Thread t calls Open(path) on the node.
ThreadCall(t, path) ==
  /\ thr[t].pc = "idle"
  /\ thr' = [thr EXCEPT ![t] = [Idle EXCEPT !.pc = "open", !.path = path]]
  /\ UNCHANGED <<srcs, caches, call, ret, hnd, ctl>>

\* Thread t's Open, with A's result rA, returns r, or enters
\* validatePathPrefix.
ThreadOpened(t, rA, r) ==
  thr' = [thr EXCEPT ![t] =
            IF ValidPath(thr[t].path) /\ rA.err # NoErr /\ isBadPathError(rA.err)
              THEN [@ EXCEPT !.pc = "validate", !.v = VInit(thr[t].path), !.rA = rA]
              ELSE [@ EXCEPT !.pc = "done", !.rA = rA, !.ret = Returned(r)]]

\* Lines 360-405 of thread t's Open: it returns, or enters validatePathPrefix.
ThreadOpen(t) ==
  /\ thr[t].pc = "open"
  /\ ThreadOpened(t, LeafOpen(1, srcs[1], thr[t].path),
                  Open(1, thr[t].path, srcs[1], caches[1],
                       OpenFS(2, thr[t].path, srcs, caches)))
  /\ UNCHANGED <<srcs, caches, call, ret, hnd, ctl>>

\* Thread t's step inside validatePathPrefix has the result s.
ThreadStepped(t, s) ==
  /\ caches' = [caches EXCEPT ![1] = s.known]
  /\ thr' = [thr EXCEPT ![t] =
               [@ EXCEPT !.v = s.v,
                         !.pc = IF s.v.pc = "return" THEN "checked" ELSE "validate"]]

\* One step of thread t inside validatePathPrefix.
ThreadValidate(t) ==
  /\ thr[t].pc = "validate"
  /\ \E seen \in BOOLEAN :
       /\ (AtRead(t) /\ Racing(t)) \/ seen = (thr[t].v.path \in caches[1])
       /\ ThreadStepped(t, validateStep(1, srcs[1], caches[1], thr[t].v, seen))
  /\ UNCHANGED <<srcs, call, ret, hnd, ctl>>

\* Lines 407-414 of thread t's Open.
ThreadReturn(t) ==
  /\ thr[t].pc = "checked"
  /\ thr' = [thr EXCEPT ![t] =
               [@ EXCEPT !.pc = "done",
                         !.ret = Returned(
                           OpenNotInA(thr[t].path, thr[t].rA.err,
                                      [err |-> thr[t].v.err, known |-> caches[1],
                                       log |-> thr[t].v.log],
                                      OpenFS(2, thr[t].path, srcs, caches),
                                      OpenLog(1, thr[t].path)))]]
  /\ UNCHANGED <<srcs, caches, call, ret, hnd, ctl>>

\* The runtime detects a racing access and ends the process.
RuntimeThrow ==
  /\ \E t \in Threads : Racing(t)
  /\ thr' = [t \in Threads |-> [thr[t] EXCEPT !.pc = "crashed"]]
  /\ UNCHANGED <<srcs, caches, call, ret, hnd, ctl>>

NextConcurrent ==
  \/ \E t \in Threads, path \in ValidCallPaths : ThreadCall(t, path)
  \/ \E t \in Threads : ThreadOpen(t)
  \/ \E t \in Threads : ThreadValidate(t)
  \/ \E t \in Threads : ThreadReturn(t)
  \/ RuntimeThrow

SpecConcurrent == InitConcurrent /\ [][NextConcurrent]_vars

\* ------------------------------------------------------------------------
\* Calls on a merged directory handle

\* The largest count ReadDir is called with.
MaxCount == 3

\* NewMergedFS(S1, S2) over sound trees of one time.
HandleChains ==
  {<<s1, s2>> : s1 \in SoundTrees(1, MidTimes, {"none", "file"}),
                s2 \in SoundTrees(2, MidTimes, {"none", "file"})}

InitHandle ==
  /\ srcs \in HandleChains
  /\ caches = NewMergedFS(srcs)
  /\ call = NoCall
  /\ ret = NoRet
  /\ thr = [t \in Threads |-> Idle]
  /\ hnd = NoHandle
  /\ ctl = NewControl(srcs)

\* The call on the handle returns r.
HandleReturns(op, n, r) ==
  /\ hnd' = Handle(r.file, op, n, hnd.file, r.entries, r.err,
                   IF op = "Close" THEN << >> ELSE hnd.read \o r.entries,
                   IF op # "Close" THEN hnd.closes
                   ELSE IF hnd.closes < 2 THEN hnd.closes + 1 ELSE 2)
  /\ UNCHANGED <<srcs, caches, call, ret, thr, ctl>>

\* The caller lists up to n entries of the merged directory it holds.
DoReadDir(n) ==
  /\ hnd.file.type = "merged"
  /\ HandleReturns("ReadDir", n, ReadDir(hnd.file, n))

\* The caller closes the merged directory it holds.
DoClose ==
  /\ hnd.file.type = "merged"
  /\ HandleReturns("Close", 0, Close(hnd.file))

NextHandle ==
  \/ \E path \in TreePaths : DoOpen(1, path)
  \/ \E n \in (0 - 1)..MaxCount : DoReadDir(n)
  \/ DoClose

SpecHandle == InitHandle /\ [][NextHandle]_vars

\* ------------------------------------------------------------------------
\* Sources whose listings name an entry two times, or fail

\* The trees with a directory "a" that holds "a/a" and "a/b", each absent or
\* listed once or twice.
ListingTrees(i, times) ==
  {[Tree(i, t, "dir", "ok", kaa, kab) EXCEPT
      ![<<"a", "a">>] = IF taa /\ kaa # "none" THEN ListedTwice(@) ELSE @,
      ![<<"a", "b">>] = IF tab /\ kab # "none" THEN ListedTwice(@) ELSE @] :
     t \in times, kaa \in {"none", "file", "dir"}, kab \in {"none", "file"},
     taa \in BOOLEAN, tab \in BOOLEAN}

\* The trees with a directory "a", holding a file "a/a" or nothing, whose
\* ReadDir fails.
UnlistableTrees(i, times) ==
  {Tree(i, t, "dir", "list", kaa, "none") : t \in times, kaa \in {"none", "file"}}


\* NewMergedFS(S1, S2) over such trees, S2 also with a file "a" or no "a".
ListingChains ==
  {<<s1, s2>> : s1 \in ListingTrees(1, MidTimes) \cup UnlistableTrees(1, MidTimes)
                         \cup OSFileTrees(1, MidTimes),
                s2 \in ListingTrees(2, MidTimes) \cup UnlistableTrees(2, MidTimes)
                         \cup OSFileTrees(2, MidTimes)
                         \cup SoundTrees(2, MidTimes, {"none"})}

InitListing ==
  /\ srcs \in ListingChains
  /\ caches = NewMergedFS(srcs)
  /\ call = NoCall
  /\ ret = NoRet
  /\ thr = [t \in Threads |-> Idle]
  /\ hnd = NoHandle
  /\ ctl = NewControl(srcs)

NextListing == \E path \in ValidCallPaths : DoOpen(1, path)

SpecListing == InitListing /\ [][NextListing]_vars

\* ------------------------------------------------------------------------
\* Switching path prefix caching off and on

\* UsePathCaching is called in TestPathPrefixCaching; its code and the flag
\* it sets are not in merged_fs.go.  They are modelled from the design: a
\* node whose caching is off neither reads nor writes its cache, switching
\* it off empties the cache at once, and switching it on starts from the
\* empty cache.  The test expects the call to reach the nested node as well.

\* The caches as the nodes see them: a node whose caching is off sees none.
Visible(known, caching) ==
  [k \in DOMAIN known |-> IF caching[k] THEN known[k] ELSE {}]

\* A plausible slip: switching the caching off leaves the entries in place.
SetCaching_KeepsEntries(known, caching, k, enabled) ==
  [known |-> known,
   caching |-> [j \in DOMAIN caching |-> IF j >= k THEN enabled ELSE caching[j]]]

\* UsePathCaching(enabled) on node k: the node and the nodes nested in it
\* take the setting; their caches are emptied.
SetCaching(known, caching, k, enabled) ==
  [known |-> [j \in DOMAIN known |-> IF j >= k THEN {} ELSE known[j]],
   caching |-> [j \in DOMAIN caching |-> IF j >= k THEN enabled ELSE caching[j]]]

\* Node k's Open(path) returns r; the nodes whose caching is off keep no
\* entry of it.
ReturnsUnder(k, path, r) ==
  /\ call' = [node |-> k, path |-> path]
  /\ ret' = Returned(r)
  /\ caches' = Visible(r.caches, ctl.caching)
  /\ hnd' = Opened(r.file)
  /\ ctl' = Control(ctl.caching,
                    IF r.err = NoErr THEN ctl.served \cup {path} ELSE ctl.served)
  /\ UNCHANGED <<srcs, thr>>

\* A caller opens `path` on node k, under the nodes' caching settings.
DoOpenUnder(k, path) ==
  ReturnsUnder(k, path, OpenFS(k, path, srcs, Visible(caches, ctl.caching)))

\* The caller's UsePathCaching(enabled) on node k has the outcome s.
CachingSet(s) ==
  /\ caches' = s.known
  /\ ctl' = Control(s.caching, ctl.served)
  /\ call' = NoCall
  /\ ret' = NoRet
  /\ hnd' = NoHandle
  /\ UNCHANGED <<srcs, thr>>

\* A caller switches the caching of node k.
DoUsePathCaching(k, enabled) ==
  /\ k \in Nodes
  /\ CachingSet(SetCaching(caches, ctl.caching, k, enabled))

\* Chains of two sources, the primary sound or failing, and of three sound
\* sources, of one time.
CachingChains ==
  {<<s1, s2>> : s1 \in SoundTrees(1, MidTimes, {"none"}) \cup FailingTrees(1, MidTimes),
                s2 \in SoundTrees(2, MidTimes, {"none", "file"})}
  \cup
  {<<s1, s2, s3>> : s1 \in SoundTrees(1, MidTimes, {"none"}),
                    s2 \in SoundTrees(2, MidTimes, {"none"}),
                    s3 \in {Tree(3, t, "dir", "ok", "file", "none") : t \in MidTimes}}

InitCaching ==
  /\ srcs \in CachingChains
  /\ caches = NewMergedFS(srcs)
  /\ call = NoCall
  /\ ret = NoRet
  /\ thr = [t \in Threads |-> Idle]
  /\ hnd = NoHandle
  /\ ctl = NewControl(srcs)

\* The sources stay as they are.
NextCaching ==
  \/ \E path \in ValidCallPaths : DoOpenUnder(1, path)
  \/ \E k \in 1..2, enabled \in BOOLEAN : DoUsePathCaching(k, enabled)

SpecCaching == InitCaching /\ [][NextCaching]_vars

\* The primary changes between the calls.
InitCachingChanging ==
  /\ srcs \in ChangingChains
  /\ caches = NewMergedFS(srcs)
  /\ call = NoCall
  /\ ret = NoRet
  /\ thr = [t \in Threads |-> Idle]
  /\ hnd = NoHandle
  /\ ctl = NewControl(srcs)

NextCachingChanging ==
  \/ \E path \in ValidCallPaths : DoOpenUnder(1, path)
  \/ \E enabled \in BOOLEAN : DoUsePathCaching(1, enabled)
  \/ \E tree \in PrimaryTrees : ChangePrimary(tree)

SpecCachingChanging == InitCachingChanging /\ [][NextCachingChanging]_vars

\* ------------------------------------------------------------------------
\* Merging a list of sources

\* MergeMultiple is called in the tests; its code is not in merged_fs.go.  It
\* is modelled from the design: the right fold of NewMergedFS over the
\* sources, the first having the highest priority; no source gives an empty
\* view, one source gives that source.

\* A file system value: the source srcs[id], the node NewMergedFS(srcs[id], b)
\* (a node is known by its primary), or the view of no source.
LeafView(id) == [kind |-> "leaf", id |-> id]
NodeView(id, b) == [kind |-> "node", id |-> id, B |-> b]
EmptyView == [kind |-> "empty", id |-> 0]

\* A plausible slip: the fold stops before the last source.
RECURSIVE MultiMerge_DropsLast(_)
MultiMerge_DropsLast(ids) ==
  IF Len(ids) <= 1 THEN EmptyView
  ELSE IF Len(ids) = 2 THEN LeafView(ids[1])
  ELSE NodeView(ids[1], MultiMerge_DropsLast(Tail(ids)))

\* MergeMultiple(sources...), the sources given by their indices in srcs.
RECURSIVE MultiMerge(_)
MultiMerge(ids) ==
  IF ids = << >> THEN EmptyView
  ELSE IF Len(ids) = 1 THEN LeafView(ids[1])
  ELSE NodeView(ids[1], MultiMerge(Tail(ids)))

\* The root of the view of no source: an empty directory.
EmptyRoot == File("leaf", 0, Root, ".", Mode(TRUE, 0), ZeroTime, 0, FALSE, << >>, "ok")

\* A plausible slip: the view of no source has no root either.
EmptyOpen_NoRoot(path) == [err |-> PathError(path, ErrNotExist), file |-> NoFile]

\* Open on the view of no source.
EmptyOpen(path) ==
  IF path = Root THEN [err |-> NoErr, file |-> EmptyRoot]
  ELSE [err |-> PathError(path, ErrNotExist), file |-> NoFile]

\* Close on the root of the view of no source.
EmptyClose(d) == HandleResult(d, << >>, NoErr)

EmptyResult(path, known, r) ==
  ChainResult(r.err, r.file, known, <<Ev("empty", 0, path)>>)

\* Open on a node, given rB: what its secondary returns.
OpenNodeView(id, path, sources, known, rB) ==
  NodeResult(id, known, rB, Open(id, path, sources[id], known[id], rB))

\* Open on a file system value.
RECURSIVE OpenView(_, _, _, _)
OpenView(view, path, sources, known) ==
  IF view.kind = "empty" THEN EmptyResult(path, known, EmptyOpen(path))
  ELSE IF view.kind = "leaf"
    THEN LeafResult(view.id, path, known, LeafOpen(view.id, sources[view.id], path))
  ELSE OpenNodeView(view.id, path, sources, known,
                    OpenView(view.B, path, sources, known))

\* No source, one source, sound or failing, or three sound sources.
MultiChains ==
  {<< >>}
  \cup {<<s1>> : s1 \in SoundTrees(1, MidTimes, {"none", "file"})
                       \cup FailingTrees(1, MidTimes)}
  \cup {<<s1, s2, s3>> : s1 \in SoundTrees(1, MidTimes, {"none"}),
                         s2 \in SoundTrees(2, MidTimes, {"none"}),
                         s3 \in SoundTrees(3, LastTimes, {"none"})}

InitMulti ==
  /\ srcs \in MultiChains
  /\ caches = NewMergedFS(srcs)
  /\ call = NoCall
  /\ ret = NoRet
  /\ thr = [t \in Threads |-> Idle]
  /\ hnd = NoHandle
  /\ ctl = NewControl(srcs)

\* The sources in the order given: srcs[1] first.
SourceIds == [i \in 1..Len(srcs) |-> i]

\* A caller opens `path` on MergeMultiple(srcs...).
DoOpenMulti(path) ==
  Returns(1, path, OpenView(MultiMerge(SourceIds), path, srcs, caches))

NextMulti == \E path \in CallPaths : DoOpenMulti(path)

SpecMulti == InitMulti /\ [][NextMulti]_vars

\* ------------------------------------------------------------------------
\* What the sources hold, for the claims

\* The last call was an Open of a valid path.
Called == call.node # 0 /\ ValidPath(call.path)

\* The primary of the called node, and the file system that is its secondary.
A == srcs[call.node]
SecondaryId == call.node + 1

HoldsIn(tree, path) == path \in DOMAIN tree /\ tree[path].kind # "none"

\* The source reports NotFound for the path.
AbsentIn(tree, path) == ~HoldsIn(tree, path)

\* The source holds a sound non-directory, or a sound directory, at the path.
NonDirIn(tree, path) ==
  HoldsIn(tree, path) /\ tree[path].kind = "file" /\ tree[path].fail = "ok"
DirIn(tree, path) ==
  HoldsIn(tree, path) /\ tree[path].kind = "dir" /\ tree[path].fail = "ok"

\* Some proper ancestor prefix of the path is a non-directory in the source.
ShadowedIn(tree, path) == \E q \in ProperPrefixes(path) : NonDirIn(tree, q)

\* Every proper ancestor prefix is a directory of the source or absent from it.
PrefixesClearIn(tree, path) ==
  \A q \in ProperPrefixes(path) : AbsentIn(tree, q) \/ DirIn(tree, q)

\* What the secondary of the called node returns for the call's path.
ResB == OpenFS(SecondaryId, call.path, srcs, caches)

\* The secondary holds a directory, or a non-directory, at the call's path.
DirInB == ResB.err = NoErr /\ Stat(ResB.file).err = NoErr /\ IsDir(ResB.file)
NonDirInB == ResB.err = NoErr /\ Stat(ResB.file).err = NoErr /\ ~IsDir(ResB.file)

\* The returned file is the handle of leaf source i for the path.
IsHandleOf(f, i, path) == f.type = "leaf" /\ f.src = i /\ f.path = path

\* The call opened the secondary: its log holds a call on that file system.
SecondaryOpened == \E n \in 1..Len(ret.log) : ret.log[n].id = SecondaryId

\* ------------------------------------------------------------------------
\* Claims

\* C1: if P is a non-directory in A, Open(P) succeeds and returns A's handle
\* for P, whatever B holds at P; B's entry is never returned.
C1_PrimaryFileWins ==
  (Called /\ NonDirIn(A, call.path))
    => (ret.err = NoErr /\ IsHandleOf(ret.file, call.node, call.path) /\ ~IsDir(ret.file))

\* C1 witness: A's file "a" was returned while B holds a directory "a" with
\* an entry below it.
C1_Witness ==
  /\ Called /\ call.path = <<"a">> /\ NonDirIn(A, <<"a">>)
  /\ DirInB /\ Len(ResB.file.entries) > 0
  /\ IsHandleOf(ret.file, call.node, <<"a">>)

\* C2: if a proper ancestor prefix of P is a non-directory in A, Open(P)
\* fails with a NotFound-class error, even when P exists in B, after any
\* earlier Open calls on the node.
C2_ShadowedNotFound ==
  (Called /\ ShadowedIn(A, call.path)) => (NotFoundClass(ret.err) /\ ret.file = NoFile)

\* C2 witness: a shadowed path that B holds failed NotFound on a node whose
\* cache earlier calls have filled.
C2_Witness ==
  /\ Called /\ ShadowedIn(A, call.path) /\ ResB.err = NoErr
  /\ caches[call.node] # {}
  /\ NotFoundClass(ret.err)

\* C3: if P is absent from A and every ancestor prefix of P is a directory
\* of A or absent from A, Open(P) returns what B.Open(P) returns, unmodified:
\* B's handle, or B's own error.
C3_FallsThroughToB ==
  (Called /\ AbsentIn(A, call.path) /\ PrefixesClearIn(A, call.path))
    => (ret.err = ResB.err /\ ret.file = ResB.file)

\* C3 witness: B's own fatal error came back as it is.
C3_Witness ==
  /\ Called /\ AbsentIn(A, call.path) /\ PrefixesClearIn(A, call.path)
  /\ FatalClass(ResB.err) /\ ret.err = ResB.err

\* The names of a listing, and the entry a listing holds for a name.
NamesOf(entries) == {entries[n].name : n \in 1..Len(entries)}
EntryNamed(entries, name) ==
  entries[CHOOSE n \in 1..Len(entries) : entries[n].name = name]

\* The listing is in strictly ascending order of name: sorted, each name once.
Ascending(entries) ==
  \A n \in 1..(Len(entries) - 1) : NameLess(entries[n].name, entries[n + 1].name)

\* What A and B list at the call's path.
ListA == LeafList(call.node, A, call.path)
ListB == ResB.file.entries

\* The names that are a directory in A's listing and in B's.
DirInBoth == {n \in NamesOf(ListA) \cap NamesOf(ListB) :
                IsDir(EntryNamed(ListA, n)) /\ IsDir(EntryNamed(ListB, n))}

\* The later of two times, to the nanosecond.
LaterTime(t, u) ==
  IF u.sec > t.sec \/ (u.sec = t.sec /\ u.nsec > t.nsec) THEN u ELSE t

\* The later of two times in whole Unix seconds.
LaterSecond(t, u) == TimeUnix(IF UnixOf(u) > UnixOf(t) THEN UnixOf(u) ELSE UnixOf(t))

\* The listing returned for a directory of both A and B is the union of the
\* two listings' names, each once, ascending.
MergedNames ==
  /\ ret.err = NoErr
  /\ NamesOf(ret.file.entries) = NamesOf(ListA) \cup NamesOf(ListB)
  /\ Ascending(ret.file.entries)

\* C4 as stated: for P a directory in both A and B, the listing of Open(P)
\* is the union of the names of A and B at P, each once, ascending, and a
\* name that is a directory in both carries the time max(A's, B's) and A's
\* permission bits.
C4_AsStated ==
  (Called /\ DirIn(A, call.path) /\ DirInB)
    => /\ MergedNames
       /\ \A n \in DirInBoth :
            /\ ModTime(EntryNamed(ret.file.entries, n))
                 = LaterTime(ModTime(EntryNamed(ListA, n)), ModTime(EntryNamed(ListB, n)))
            /\ EntryNamed(ret.file.entries, n).mode = EntryNamed(ListA, n).mode

\* C4 as amended: the same, with the time of a name that is a directory in
\* both being the later of A's and B's times in whole Unix seconds, the
\* nanoseconds dropped.
C4_MergedListing ==
  (Called /\ DirIn(A, call.path) /\ DirInB)
    => /\ MergedNames
       /\ \A n \in DirInBoth :
            /\ ModTime(EntryNamed(ret.file.entries, n))
                 = LaterSecond(ModTime(EntryNamed(ListA, n)), ModTime(EntryNamed(ListB, n)))
            /\ EntryNamed(ret.file.entries, n).mode = EntryNamed(ListA, n).mode

\* C4 witness: a merged listing with a name only B lists and a name that is
\* a directory in both, whose later time has nanoseconds.
C4_Witness ==
  /\ Called /\ DirIn(A, call.path) /\ DirInB /\ ret.file.type = "merged"
  /\ NamesOf(ListB) \ NamesOf(ListA) # {}
  /\ \E n \in DirInBoth :
       LaterTime(ModTime(EntryNamed(ListA, n)), ModTime(EntryNamed(ListB, n))).nsec # 0

\* C5: for P (not the root) a directory in both the primary and the
\* secondary, the name, is-directory flag, mode and modification time of P's
\* entry in the listing of Open(parent(P)) equal those of Stat on Open(P);
\* also when the secondary is itself a node.
C5_ListingMatchesStat ==
  (Called /\ call.path # Root /\ DirIn(A, call.path) /\ DirInB)
    => LET parent == OpenFS(call.node, ParentOf(call.path), srcs, caches)
       IN  /\ parent.err = NoErr
           /\ ret.err = NoErr
           /\ baseName(call.path) \in NamesOf(parent.file.entries)
           /\ Stat(EntryNamed(parent.file.entries, baseName(call.path)))
                = Stat(ret.file)

\* C5 witness: "a" is a directory in S1 and in both sources of the nested
\* node, whose merged time is later than S1's, and Open("a") returned a
\* merged directory.
C5_Witness ==
  /\ Called /\ call.path = <<"a">> /\ Len(srcs) = 3
  /\ \A i \in 1..3 : DirIn(srcs[i], <<"a">>)
  /\ ResB.file.type = "merged"
  /\ srcs[1][<<"a">>].mtime.sec < ResB.file.modTime
  /\ ret.file.type = "merged"

\* C6: for P a directory in A, if B reports NotFound for P or holds a
\* non-directory at P, Open(P) returns A's own directory handle, listing
\* A's entries alone; a merged directory is built only when P is a
\* directory in both (any other merged directory returned is the handle a
\* nested secondary built, passed through for a path absent from A).
C6_PrimaryDirAlone ==
  /\ (Called /\ DirIn(A, call.path) /\ (NotFoundClass(ResB.err) \/ NonDirInB))
       => /\ ret.err = NoErr
          /\ IsHandleOf(ret.file, call.node, call.path)
          /\ ret.file.entries = ListA
  /\ (Called /\ ret.file.type = "merged")
       => \/ DirIn(A, call.path) /\ DirInB
          \/ AbsentIn(A, call.path) /\ ret.file = ResB.file

\* C6 witness: A's directory "a", with an entry, was returned while B holds
\* a non-directory "a".
C6_Witness ==
  /\ Called /\ call.path = <<"a">> /\ DirIn(A, <<"a">>) /\ NonDirInB
  /\ IsHandleOf(ret.file, call.node, <<"a">>) /\ Len(ret.file.entries) > 0

\* C10: if A fails to open P with an error that is not NotFound-class, or A
\* opens P and Stat on it fails, Open(P) fails with a Fatal-class error that
\* wraps the original error and names the path, and B is not opened.
C10_PrimaryErrorFatal ==
  (Called /\ HoldsIn(A, call.path) /\ A[call.path].fail # "ok")
    => /\ FatalClass(ret.err)
       /\ ret.file = NoFile
       /\ Head(ret.err).path = call.path
       /\ Tail(ret.err) = (IF A[call.path].fail = "open"
                             THEN LeafOpen(call.node, A, call.path).err ELSE ErrStat)
       /\ ~SecondaryOpened

\* C10 witness: A failed to open "a" with an I/O error while B holds "a".
C10_Witness ==
  /\ Called /\ HoldsIn(A, call.path) /\ A[call.path].fail = "open"
  /\ ResB.err = NoErr
  /\ FatalClass(ret.err) /\ ErrorsIs(ret.err, "ErrIO")

\* C7 as stated: also when the primary's contents change between the calls,
\* an Open(P) issued while an ancestor prefix of P is a non-directory in the
\* primary fails NotFound and returns nothing of the secondary, whatever
\* earlier calls memoized.
C7_ShadowedAfterChange ==
  (Called /\ ShadowedIn(A, call.path))
    => (ret.err # NoErr /\ NotFoundClass(ret.err) /\ ret.file.type = "nil")

\* C8 as stated: no two threads are ever at accesses of the node's cache at
\* once with one of them writing, and no call is cut short.
C8_NoDataRace ==
  /\ \A t \in Threads : ~Racing(t)
  /\ \A t \in Threads : thr[t].pc # "crashed"

\* What a call of Open(path) returns when it runs alone on a fresh node.
Alone(path) == OpenFS(1, path, srcs, NewMergedFS(srcs))

\* The class of an error: none, NotFound or Fatal.
ErrClass(e) ==
  IF e = NoErr THEN "none" ELSE IF NotFoundClass(e) THEN "notfound" ELSE "fatal"

\* The outcome of a call: the class of its error and the handle it returned,
\* which for a merged directory holds its entries.
Outcome(r) == [class |-> ErrClass(r.err), file |-> r.file]

\* C9 as stated: under every interleaving each call returns, with the
\* outcome it would have running alone on a fresh node, and once all calls
\* have returned the cache holds what the calls would have memoized one
\* after the other.
C9_SameAsAlone ==
  /\ \A t \in Threads :
       thr[t].pc \in {"done", "crashed"}
         => (thr[t].pc = "done"
             /\ Outcome(thr[t].ret) = Outcome(Alone(thr[t].path)))
  /\ (\A t \in Threads : thr[t].pc = "done")
       => caches[1] = UNION {Alone(thr[t].path).caches[1] : t \in Threads}

\* ------------------------------------------------------------------------
\* Claims on errors of the shadow-prefix check and on invalid paths

\* The shadow-prefix check of the path reaches a prefix that the source
\* fails to open or to stat with an error that is not NotFound-class: the
\* prefixes before it are sound directories.
PrefixFailsIn(tree, path) ==
  \E q \in ProperPrefixes(path) :
    /\ HoldsIn(tree, q) /\ tree[q].fail # "ok"
    /\ \A r \in ProperPrefixes(q) : DirIn(tree, r)

\* C11 as stated: if A reports NotFound for P and the shadow-prefix check
\* fails to open or to stat an ancestor prefix with an error that is not
\* NotFound-class, Open(P) fails with a Fatal-class error and the secondary
\* is not opened.
C11_PrefixErrorFatal ==
  (Called /\ AbsentIn(A, call.path) /\ PrefixFailsIn(A, call.path))
    => (FatalClass(ret.err) /\ ret.file = NoFile /\ ~SecondaryOpened)

\* C12: Open of a path that fs.ValidPath rejects fails with an InvalidPath
\* error, which is NotFound-class, returns no file, opens neither source and
\* leaves every cache as it was.
C12_InvalidPathRejected ==
  [][(call'.node # 0 /\ ~ValidPath(call'.path))
       => /\ ErrorsIs(ret'.err, "ErrInvalid") /\ NotFoundClass(ret'.err)
          /\ ret'.file = NoFile
          /\ \A n \in 1..Len(ret'.log) : ret'.log[n].on # "leaf"
          /\ caches' = caches]_vars

\* C12 witness: "/a" was refused on a node whose cache earlier calls filled.
C12_Witness ==
  /\ call.node # 0 /\ call.path = <<"", "a">>
  /\ caches[call.node] # {}
  /\ ErrorsIs(ret.err, "ErrInvalid") /\ ret.file = NoFile

\* ------------------------------------------------------------------------
\* Claims on the merged directory handle

\* The entries of the handle, and the cursor before the last call on it.
EntriesOf == hnd.file.entries
CursorBefore == hnd.before.readOffset

\* How many entries a ReadDir(n) at the cursor c of E is to return.
CountDue(n, c) ==
  IF n > 0 /\ n < Len(EntriesOf) - c THEN n ELSE Len(EntriesOf) - c

\* C13: a ReadDir(n) on a merged directory handle with entries E returns the
\* slice of E that starts at the cursor, of length min(n, remaining) for
\* n > 0 and of length remaining for n <= 0, and advances the cursor by the
\* number returned; the cursor stays within 0..Len(E), E is not changed, and
\* all results since the handle was opened concatenate to the prefix of E
\* that ends at the cursor.
C13_ReadDirSlices ==
  (hnd.op = "ReadDir")
    => /\ EntriesOf = hnd.before.entries
       /\ hnd.out = SubSeq(EntriesOf, CursorBefore + 1,
                           CursorBefore + CountDue(hnd.n, CursorBefore))
       /\ hnd.file.readOffset = CursorBefore + Len(hnd.out)
       /\ hnd.file.readOffset \in 0..Len(EntriesOf)
       /\ hnd.read = SubSeq(EntriesOf, 1, hnd.file.readOffset)

\* C13 witness: the second ReadDir(1) returned the second of two entries.
C13_Witness ==
  /\ hnd.op = "ReadDir" /\ hnd.n = 1 /\ CursorBefore = 1
  /\ Len(EntriesOf) = 2 /\ hnd.out = <<EntriesOf[2]>>

\* C14: with the cursor at the end of the entries, also of an empty
\* directory on the first call, ReadDir(n) returns no entries, with io.EOF
\* for n > 0 and with no error for n <= 0, and does not move the cursor.
C14_EndOfEntries ==
  (hnd.op = "ReadDir" /\ CursorBefore >= Len(hnd.before.entries))
    => /\ hnd.out = << >>
       /\ hnd.err = (IF hnd.n > 0 THEN ErrEOF ELSE NoErr)
       /\ hnd.file.readOffset = CursorBefore

\* C14 witness: the first ReadDir(1) on an empty merged directory returned
\* io.EOF.
C14_Witness ==
  /\ hnd.op = "ReadDir" /\ hnd.n = 1 /\ hnd.read = << >> /\ hnd.closes = 0
  /\ hnd.before.entries = << >> /\ hnd.file.type = "merged"
  /\ hnd.err = ErrEOF

\* C15: Close on a merged directory handle drops the entries, resets the
\* cursor to 0, leaves what Stat returns (name, is-directory flag, mode,
\* modification time) as it was and returns no error, also when the handle
\* is closed again.
C15_CloseKeepsMetadata ==
  [][(hnd'.op = "Close")
       => /\ hnd'.file.entries = << >> /\ hnd'.file.readOffset = 0
          /\ Stat(hnd'.file) = Stat(hnd.file)
          /\ Stat(hnd'.file).err = NoErr /\ Stat(hnd'.file).info.isDir
          /\ hnd'.err = NoErr]_vars

\* C15 witness: a merged directory "a" whose entries had been read in part
\* was closed.
C15_Witness ==
  /\ hnd.op = "Close" /\ hnd.before.readOffset = 1 /\ Len(hnd.before.entries) = 2
  /\ hnd.file.name = "a" /\ hnd.file.entries = << >>

\* ------------------------------------------------------------------------
\* Claims on switching the caching

\* C16: with the sources fixed, after any sequence of Open and
\* UsePathCaching calls, whatever the caches hold and whichever nodes
\* memoize, Open(P) has the outcome it has on nodes that never memoized.
C16_SameWithAnyCache ==
  Called => (Outcome(ret) = Outcome(Alone(call.path)))

\* C16 witness: in a chain of three, a path memoized by node 1, whose nested
\* node has its caching off, was opened through the secondary.
C16_Witness ==
  /\ Called /\ Len(srcs) = 3
  /\ ctl.caching[1] /\ ~ctl.caching[2]
  /\ call.path \in caches[1]
  /\ ret.err = NoErr /\ ret.file = ResB.file

\* The entries a step adds to the cache of node k.
Added(k) == caches'[k] \ caches[k]

\* C17: a node whose caching is off has an empty cache, at once after
\* UsePathCaching(false) and after every Open until UsePathCaching(true);
\* switching the caching on leaves the cache empty, and from then on only an
\* Open adds entries: prefixes of its path.
C17_DisableEmptiesCache ==
  [][\A k \in Nodes :
       /\ ~ctl'.caching[k] => caches'[k] = {}
       /\ (~ctl.caching[k] /\ ctl'.caching[k]) => caches'[k] = {}
       /\ Added(k) # {}
            => /\ ctl.caching[k] /\ ctl'.caching[k]
               /\ call'.node # 0
               /\ Added(k) \subseteq ProperPrefixes(call'.path) \cup {call'.path}]_vars

\* C17 witness: with the caching off, a path absent from A was opened
\* through the secondary after other paths had been opened, and the cache
\* is empty.
C17_Witness ==
  /\ Called /\ ~ctl.caching[1] /\ caches[1] = {}
  /\ AbsentIn(A, call.path) /\ ret.err = NoErr
  /\ ctl.served \ {call.path} # {}

\* C18: with the caching of the node off, an Open of a path below a name
\* that is a regular file in the primary fails, also when the file was added
\* after the path had been opened through the secondary.
C18_NewFileBlocks ==
  (Called /\ ~ctl.caching[1] /\ ShadowedIn(A, call.path))
    => (ret.err # NoErr /\ ret.file = NoFile)

\* C18 witness: a path that was opened with success before is refused now
\* that a prefix of it is a regular file in the primary.
C18_Witness ==
  /\ Called /\ ~ctl.caching[1] /\ ShadowedIn(A, call.path)
  /\ call.path \in ctl.served
  /\ NotFoundClass(ret.err)

\* ------------------------------------------------------------------------
\* Claims on merging a list of sources

\* NewMergedFS(S1, NewMergedFS(S2, S3))
Nested3 == NodeView(1, NodeView(2, LeafView(3)))

\* C19: every Open on MergeMultiple(S1, S2, S3) returns what the same Open
\* on NewMergedFS(S1, NewMergedFS(S2, S3)) returns, and memoizes the same.
C19_MultiMergeIsRightFold ==
  [][(call'.node # 0 /\ Len(srcs) = 3)
       => /\ ret' = Returned(OpenView(Nested3, call'.path, srcs, caches))
          /\ caches' = OpenView(Nested3, call'.path, srcs, caches).caches]_vars

\* C19 witness: a path that S3 alone holds was opened on the merge of three.
C19_Witness ==
  /\ call.node # 0 /\ Len(srcs) = 3 /\ ValidPath(call.path)
  /\ AbsentIn(srcs[1], call.path) /\ AbsentIn(srcs[2], call.path)
  /\ ret.err = NoErr /\ IsHandleOf(ret.file, 3, call.path)

\* C20: on MergeMultiple() the root opens as an empty directory, on which
\* Stat reports a directory and Close succeeds, and every other path fails
\* with a NotFound-class error; on MergeMultiple(S) every Open returns what
\* S.Open returns.
C20_NoSourceOneSource ==
  /\ (call.node # 0 /\ Len(srcs) = 0)
       => IF call.path = Root
            THEN /\ ret.err = NoErr
                 /\ Stat(ret.file).err = NoErr /\ Stat(ret.file).info.isDir
                 /\ ret.file.entries = << >>
                 /\ EmptyClose(ret.file).err = NoErr
            ELSE NotFoundClass(ret.err) /\ ret.file = NoFile
  /\ (call.node # 0 /\ Len(srcs) = 1)
       => /\ ret.err = LeafOpen(1, srcs[1], call.path).err
          /\ ret.file = LeafOpen(1, srcs[1], call.path).file

\* C20 witness: the root of the merge of no source was opened.
C20_Witness ==
  /\ call.node # 0 /\ Len(srcs) = 0 /\ call.path = Root
  /\ ret.err = NoErr /\ IsDir(ret.file)

\* ------------------------------------------------------------------------
\* Claims on chains of nodes

\* The first source of the chain, in the order S1, S2, S3, that has an entry
\* at the path; 0 if none has.
FirstHolder(path) ==
  IF \E i \in 1..Len(srcs) : HoldsIn(srcs[i], path)
    THEN CHOOSE i \in 1..Len(srcs) :
           HoldsIn(srcs[i], path) /\ \A j \in 1..(i - 1) : AbsentIn(srcs[j], path)
    ELSE 0

\* A source before the i-th has a non-directory at an ancestor prefix.
ShadowedBefore(i, path) == \E j \in 1..(i - 1) : ShadowedIn(srcs[j], path)

\* C21: in the chain NewMergedFS(S1, NewMergedFS(S2, S3)) over fixed sources,
\* Open(P) returns the non-directory of the first source Si that has an
\* entry at P, provided no source before Si has a non-directory at an
\* ancestor prefix of P; if a source before the first one that has an entry
\* at P has a non-directory at an ancestor prefix of P, Open(P) fails
\* NotFound.
C21_FirstSourceAnswers ==
  (Called /\ Len(srcs) = 3 /\ FirstHolder(call.path) # 0)
    => /\ (NonDirIn(srcs[FirstHolder(call.path)], call.path)
             /\ ~ShadowedBefore(FirstHolder(call.path), call.path))
            => /\ ret.err = NoErr
               /\ IsHandleOf(ret.file, FirstHolder(call.path), call.path)
               /\ ~IsDir(ret.file)
       /\ ShadowedBefore(FirstHolder(call.path), call.path)
            => (NotFoundClass(ret.err) /\ ret.file = NoFile)

\* C21 witness: "a/a" is a non-directory of S3 alone, below a directory "a"
\* that S1 and S2 hold too, and S3's handle was returned.
C21_Witness ==
  /\ Called /\ Len(srcs) = 3 /\ call.path = <<"a", "a">>
  /\ FirstHolder(call.path) = 3 /\ NonDirIn(srcs[3], call.path)
  /\ DirIn(srcs[1], <<"a">>) /\ DirIn(srcs[2], <<"a">>)
  /\ IsHandleOf(ret.file, 3, call.path)

\* ------------------------------------------------------------------------
\* Claims on the cache

\* The source holds a non-directory at the path, or at an ancestor prefix.
FileAtOrAbove(tree, path) ==
  \E q \in ProperPrefixes(path) \cup {path} : HoldsIn(tree, q) /\ tree[q].kind = "file"

\* C22: with the sources fixed, every entry of a node's cache is a path that
\* is not a non-directory in the node's primary and has no ancestor prefix
\* that is one; in particular an Open that fails as shadowed leaves neither
\* the blocking prefix nor its path in the cache.
C22_CacheSound ==
  /\ \A k \in Nodes : \A q \in caches[k] : ~FileAtOrAbove(srcs[k], q)
  /\ (Called /\ ShadowedIn(A, call.path) /\ call.node \in Nodes)
       => /\ call.path \notin caches[call.node]
          /\ \A q \in ProperPrefixes(call.path) :
               NonDirIn(A, q) => q \notin caches[call.node]

\* C22 witness: Open("a/a/a") failed as shadowed by the file "a/a" of the
\* primary, after the check had memoized the directory "a".
C22_Witness ==
  /\ Called /\ call.path = <<"a", "a", "a">> /\ NonDirIn(A, <<"a", "a">>)
  /\ NotFoundClass(ret.err)
  /\ <<"a">> \in caches[call.node]
  /\ <<"a", "a">> \notin caches[call.node] /\ call.path \notin caches[call.node]

\* The positions of the log where node k's primary, the leaf k, is opened.
OpensOfPrimary(log, k) ==
  {n \in 1..Len(log) : log[n].on = "leaf" /\ log[n].id = k}

\* The prefixes that node k's shadow-prefix check opened in its primary: the
\* opens of the primary after the first, which is the Open's own (line 364).
CheckOpened(log, k) ==
  {log[n].path : n \in {m \in OpensOfPrimary(log, k) :
                          \E l \in OpensOfPrimary(log, k) : l < m}}

\* C23 as stated: the shadow-prefix check of an Open opens in the node's
\* primary no prefix that the node's cache held when the call began.
C23_CachedPrefixNotReopened ==
  [][(call'.node # 0)
       => \A k \in Nodes : CheckOpened(ret'.log, k) \cap caches[k] = {}]_vars

\* ------------------------------------------------------------------------
\* Claims on merging listings

\* The listing holds a name two times.
NameTwice(entries) ==
  \E n \in 1..Len(entries), m \in 1..Len(entries) :
    n # m /\ entries[n].name = entries[m].name

\* C24: if the primary's listing of a directory P holds the same name twice
\* and P is a directory of the secondary too, Open(P) fails with a
\* Fatal-class error and returns no handle; and the listing of a merged
\* directory holds no name twice, whatever the two sources list.
C24_DuplicateNames ==
  /\ (Called /\ DirIn(A, call.path) /\ DirInB /\ NameTwice(ListA))
       => (FatalClass(ret.err) /\ ret.file = NoFile)
  /\ (Called /\ ret.err = NoErr /\ ret.file.type = "merged")
       => ~NameTwice(ret.file.entries)

\* C24 witness: the primary lists "a/a" two times, "a" is a directory of the
\* secondary, and Open("a") failed with the error of the duplicate name.
C24_Witness ==
  /\ Called /\ call.path = <<"a">> /\ DirIn(A, call.path) /\ DirInB
  /\ NameTwice(ListA)
  /\ FatalClass(ret.err) /\ ErrorsIs(ret.err, "mergeDirEntries:duplicateA")

\* The names that A and B both list at the call's path, not as a directory
\* in both.
ConflictNames == (NamesOf(ListA) \cap NamesOf(ListB)) \ DirInBoth

\* How many entries of the listing carry the name.
CountNamed(entries, name) ==
  Cardinality({n \in 1..Len(entries) : entries[n].name = name})

\* C25: in the listing of a directory of both A and B, a name that both list
\* and that is not a directory in both is held once, by A's entry unchanged:
\* A's kind, mode and time, and nothing of B's entry.
C25_ConflictKeepsA ==
  (Called /\ DirIn(A, call.path) /\ DirInB)
    => /\ ret.err = NoErr
       /\ \A n \in ConflictNames :
            /\ CountNamed(ret.file.entries, n) = 1
            /\ EntryNamed(ret.file.entries, n) = EntryNamed(ListA, n)
            /\ EntryNamed(ret.file.entries, n) # EntryNamed(ListB, n)

\* C25 witness: "a/a" is a directory in A and a file of a later time in B,
\* and the merged listing of "a" holds A's directory entry.
C25_Witness ==
  /\ Called /\ call.path = <<"a">> /\ DirIn(A, call.path) /\ DirInB
  /\ "a" \in ConflictNames
  /\ IsDir(EntryNamed(ListA, "a")) /\ ~IsDir(EntryNamed(ListB, "a"))
  /\ ModTime(EntryNamed(ListB, "a")).sec > ModTime(EntryNamed(ListA, "a")).sec
  /\ ret.file.type = "merged"
  /\ EntryNamed(ret.file.entries, "a") = EntryNamed(ListA, "a")

\* ------------------------------------------------------------------------
\* Claims on the union view

\* The proper ancestors of a path in the view: its proper prefixes and the
\* root.
Ancestors(path) ==
  IF path = Root THEN {} ELSE ProperPrefixes(path) \cup {Root}

\* What an Open of the path on the top node returns in the current state.
View(path) == OpenFS(1, path, srcs, caches)

\* The view holds the path, and holds a directory at it.
Reachable(path) == View(path).err = NoErr
ReachableDir(path) == Reachable(path) /\ IsDir(View(path).file)

\* The sources are well formed: each is a tree, an entry's parent being a
\* directory, and answers every Open and Stat of what it holds.
WellFormed ==
  \A i \in 1..Len(srcs) : \A p \in TreePaths :
    /\ srcs[i][p].fail = "ok" /\ ~srcs[i][p].twice
    /\ HoldsIn(srcs[i], p) => \A q \in Ancestors(p) : DirIn(srcs[i], q)

\* C26: with the sources fixed and well formed, on every chain of nodes, if
\* Open(P) succeeds then Open(Q) succeeds and returns a directory for every
\* proper ancestor Q of P; no path is reachable both as a non-directory and
\* as the parent of another reachable path.
C26_ViewIsATree ==
  WellFormed
    => /\ (Called /\ ret.err = NoErr)
            => \A q \in Ancestors(call.path) : ReachableDir(q)
       /\ \A p \in ValidCallPaths :
            Reachable(p)
              => \A q \in Ancestors(p) : ~(Reachable(q) /\ ~IsDir(View(q).file))

\* C26 witness: in a chain of three, "a/a" was opened from the last source
\* below a directory "a" merged from the sources.
C26_Witness ==
  /\ WellFormed /\ Called /\ Len(srcs) = 3 /\ call.path = <<"a", "a">>
  /\ ret.err = NoErr /\ IsHandleOf(ret.file, 3, call.path)
  /\ ReachableDir(<<"a">>) /\ View(<<"a">>).file.type = "merged"

\* ------------------------------------------------------------------------
\* Claims on the handles an Open opens

\* A handle of a leaf source: the source and the path it was opened at.
HandleId(src, path) == [src |-> src, path |-> path]

\* The handles the logged calls opened in the leaf sources: the opens that
\* succeeded.
HandlesOpened(log) ==
  {HandleId(log[n].id, log[n].path) :
     n \in {m \in 1..Len(log) :
              /\ log[m].on = "leaf"
              /\ LeafOpen(log[m].id, srcs[log[m].id], log[m].path).err = NoErr}}

\* The handles the logged calls closed.
HandlesClosed(log) ==
  {HandleId(log[n].id, log[n].path) : n \in {m \in 1..Len(log) : log[m].on = "close"}}

\* The handle of a leaf source that the call returned to its caller, if any.
HandlesReturned ==
  IF ret.err = NoErr /\ ret.file.type = "leaf"
    THEN {HandleId(ret.file.src, ret.file.path)} ELSE {}

\* C27 as stated: when an Open has returned, every handle it opened in a
\* source and did not return to the caller has been closed: the secondary's
\* non-directory discarded for the primary's directory, the two directory
\* handles a merged directory was built from, and the prefix handles of the
\* shadow-prefix check.
C27_UnreturnedHandlesClosed ==
  Called => (HandlesOpened(ret.log) \ HandlesReturned) \subseteq HandlesClosed(ret.log)

\* ------------------------------------------------------------------------
\* Claims on what an Open changes

\* The logged calls hold an Open of the path on node k.
NodeCalled(log, k, path) ==
  \E n \in 1..Len(log) : log[n] = Ev("node", k, path)

\* C28: an Open changes the cache of a node only if it called that node's
\* Open, with a valid path for which the node's primary reported a
\* NotFound-class error; an Open that the primary answers with a file or a
\* directory, an Open of an invalid path and an Open on which the primary
\* fails fatally leave the node's cache as it was.
C28_CacheFrame ==
  [][(call'.node # 0)
       => \A k \in Nodes :
            /\ (caches'[k] # caches[k])
                 => /\ NodeCalled(ret'.log, k, call'.path)
                    /\ ValidPath(call'.path)
                    /\ NotFoundClass(LeafOpen(k, srcs[k], call'.path).err)
            /\ (k = call'.node
                  /\ \/ ~ValidPath(call'.path)
                     \/ HoldsIn(srcs[k], call'.path))
                 => caches'[k] = caches[k]]_vars

\* C28 witness: in a chain of three, Open("a") was answered by the primary's
\* directory and passed to the nested node, whose primary has no "a": the
\* nested node memoized "a", the called node did not, and the called node's
\* cache holds what an earlier call left.
C28_Witness ==
  /\ Called /\ Len(srcs) = 3 /\ call.path = <<"a">>
  /\ DirIn(srcs[1], <<"a">>) /\ AbsentIn(srcs[2], <<"a">>)
  /\ ret.err = NoErr
  /\ <<"a">> \in caches[2] /\ <<"a">> \notin caches[1] /\ caches[1] # {}

====
